---- MODULE Spec2Model ----
(***************************************************************************)
(* A model of react-redux-api-middleware: the apiMiddleware interception   *)
(* function (src/src/lib/index.js), its lifecycle-message constructors and *)
(* the callApi transport helper (src/unnamed/part_001).                    *)
(*                                                                         *)
(* JavaScript values are tagged records, so that typeof, truthiness,       *)
(* property reads, object spread and string conversion are computed the    *)
(* way the language computes them.  One run of Spec is the life of one     *)
(* middleware instance serving one call, one run of SpecConcurrent that of *)
(* an instance serving several calls at once, and SpecFunctions applies    *)
(* the exported functions on their own, the result kept in applied.        *)
(***************************************************************************)
EXTENDS Integers, Sequences, FiniteSets, TLC

VARIABLES config, calls, dispatched, applied

vars == <<config, calls, dispatched, applied>>

---------------------------------------------------------------------------
(* JavaScript values                                                       *)

Undef == [k |-> "undefined"]
Null == [k |-> "null"]
Bool(b) == [k |-> "boolean", b |-> b]
Num(n) == [k |-> "number", n |-> n]
Str(s) == [k |-> "string", s |-> s]
\* a plain object: f maps its own enumerable keys to values
Obj(f) == [k |-> "object", f |-> f]
\* an Error instance: name and message live on the prototype chain / as
\* non-enumerable properties, f holds the own enumerable ones
Err(name, message, f) == [k |-> "error", name |-> name, message |-> message, f |-> f]
\* a function value that returns ret when called
Fn(ret) == [k |-> "function", ret |-> ret]
\* marks a key that the object literal does not have at all
Absent == [k |-> "absent"]

NoProps == [key \in {} |-> Undef]

\* an object literal: the keys mapped to Absent are left out
Literal(f) == Obj([key \in {q \in DOMAIN f : f[q] # Absent} |-> f[key]])

\* completion records of a call: it returns a value or throws one
Normal(v) == [type |-> "normal", value |-> v]
Throw(v) == [type |-> "throw", value |-> v]

TypeError(message) == Err("TypeError", message, NoProps)

TypeOf(v) ==
    IF v.k \in {"null", "error"} THEN "object" ELSE v.k

Truthy(v) ==
    CASE v.k \in {"undefined", "null"} -> FALSE
      [] v.k = "boolean" -> v.b
      [] v.k = "number" -> v.n # 0
      [] v.k = "string" -> v.s # ""
      [] OTHER -> TRUE

\* v[key]; Undef for a key the value does not have.  Reading a property of
\* undefined or null throws, which the callers test with Nullish first.
Nullish(v) == v.k \in {"undefined", "null"}

Get(v, key) ==
    IF v.k \in {"object", "error"} /\ key \in DOMAIN v.f THEN v.f[key] ELSE Undef

\* {...v}: the own enumerable properties of v; nothing for undefined, null
\* and the other values drawn here
Spread(v) ==
    IF v.k \in {"object", "error"} THEN v.f ELSE NoProps

\* {...a, ...b} on property maps: the later keys overwrite the earlier ones
Merge(a, b) ==
    [key \in DOMAIN a \cup DOMAIN b |-> IF key \in DOMAIN b THEN b[key] ELSE a[key]]

\* v.toString(): a method call, so it throws on undefined and null, and on
\* an object whose own toString property is not callable
CallToString(v) ==
    CASE Nullish(v) -> Throw(TypeError("Cannot read properties of " \o v.k))
      [] v.k = "boolean" -> Normal(Str(IF v.b THEN "true" ELSE "false"))
      [] v.k = "number" -> Normal(Str(ToString(v.n)))
      [] v.k = "string" -> Normal(v)
      [] v.k = "object" ->
            IF "toString" \in DOMAIN v.f
            THEN IF v.f["toString"].k = "function"
                 THEN Normal(v.f["toString"].ret)
                 ELSE Throw(TypeError("toString is not a function"))
            ELSE Normal(Str("[object Object]"))
      [] v.k = "error" ->
            Normal(Str(IF v.message = "" THEN v.name ELSE v.name \o ": " \o v.message))
      [] OTHER -> Normal(Str("function"))

\* `${v}`: string conversion in a template literal
TemplateString(v) ==
    IF Nullish(v) THEN v.k ELSE CallToString(v).value.s

RECURSIVE JSONStringify(_)
\* JSON.stringify(v) for the JSON values drawn here; the keys of an object
\* are written in one fixed order
JSONStringify(v) ==
    CASE v.k = "null" -> "null"
      [] v.k = "boolean" -> IF v.b THEN "true" ELSE "false"
      [] v.k = "number" -> ToString(v.n)
      [] v.k = "string" -> "\"" \o v.s \o "\""
      [] v.k = "object" ->
            LET RECURSIVE Members(_)
                Members(keys) ==
                    IF keys = {} THEN ""
                    ELSE LET key == CHOOSE q \in keys : TRUE
                             rest == Members(keys \ {key})
                         IN  "\"" \o key \o "\":" \o JSONStringify(v.f[key])
                               \o (IF rest = "" THEN "" ELSE "," \o rest)
            IN  "{" \o Members(DOMAIN v.f) \o "}"
      [] OTHER -> "null"

---------------------------------------------------------------------------
(* src/src/lib/index.js: constants and message constructors                *)

API_CALL == "API_CALL"

defaultConfig == Obj(NoProps)

apiActionType == [SUCCESS |-> "SUCCESS", ERROR |-> "ERROR", LOADING |-> "LOADING"]

createApiActionSetCopyPaste(actionName) ==
    Obj([LOADING |-> Str(TemplateString(actionName) \o "_" \o apiActionType.LOADING),
         SUCCESS |-> Str(TemplateString(actionName) \o "_" \o apiActionType.SUCCESS),
         ERROR |-> Str(TemplateString(actionName) \o "_" \o apiActionType.SUCCESS),
         actionName |-> actionName])

createApiActionSet(actionName) ==
    Obj([LOADING |-> Str(TemplateString(actionName) \o "_" \o apiActionType.LOADING),
         SUCCESS |-> Str(TemplateString(actionName) \o "_" \o apiActionType.SUCCESS),
         ERROR |-> Str(TemplateString(actionName) \o "_" \o apiActionType.ERROR),
         actionName |-> actionName])

\* the three constructors return a completion: createErrorAction throws
\* when error.toString() does
createSuccessActionMistagged(actions, response, meta) ==
    Normal(Obj(Merge([type |-> Get(actions, "LOADING"),
                      apiActionType |-> Str(apiActionType.SUCCESS),
                      actionName |-> Get(actions, "actionName"),
                      response |-> response],
                     Spread(meta))))

createSuccessAction(actions, response, meta) ==
    Normal(Obj(Merge([type |-> Get(actions, "SUCCESS"),
                      apiActionType |-> Str(apiActionType.SUCCESS),
                      actionName |-> Get(actions, "actionName"),
                      response |-> response],
                     Spread(meta))))

createErrorAction(actions, error, meta) ==
    LET str == CallToString(error)
    IN  IF str.type = "throw" THEN str
        ELSE Normal(Obj(Merge([type |-> Get(actions, "ERROR"),
                               apiActionType |-> Str(apiActionType.ERROR),
                               rawError |-> error,
                               error |-> str.value,
                               actionName |-> Get(actions, "actionName")],
                              Spread(meta))))

createLoadingActionMetaFirst(actions, meta) ==
    Normal(Obj(Merge(Spread(meta),
                     [type |-> Get(actions, "LOADING"),
                      apiActionType |-> Str(apiActionType.LOADING),
                      actionName |-> Get(actions, "actionName")])))

createLoadingAction(actions, meta) ==
    Normal(Obj(Merge([type |-> Get(actions, "LOADING"),
                      apiActionType |-> Str(apiActionType.LOADING),
                      actionName |-> Get(actions, "actionName")],
                     Spread(meta))))

---------------------------------------------------------------------------
(* src/unnamed/part_001: the transport helper callApi                      *)

handleSuccessfulResponse(response) ==
    \* response.json(): resolves with the parsed body, rejects when the
    \* body is not JSON
    IF response.json.type = "normal"
    THEN [state |-> "resolved", value |-> response.json.value]
    ELSE [state |-> "rejected", value |-> response.json.value]

handleUnauthorizedResponseUnflagged ==
    [state |-> "rejected", value |-> Err("Error", "401 - Unauthorized", NoProps)]

handleUnauthorizedResponse ==
    [state |-> "rejected",
     value |-> Err("Error", "401 - Unauthorized", [unauthorized |-> Bool(TRUE)])]

handleErrorResponse(response) ==
    \* response.json().then(res => Promise.reject(res))
    [state |-> "rejected", value |-> response.json.value]

\* the synchronous part of callApi: the arguments it hands to fetch
callApi(url, body, method, options) ==
    LET m == IF method = Undef THEN Str("GET") ELSE method
        o == IF options = Undef THEN Obj(NoProps) ELSE options
        params == Merge(Spread(o), [method |-> m])
    IN  [url |-> url,
         params |->
            IF m = Str("POST")
            THEN Obj(Merge(params,
                     [body |-> IF Truthy(body) THEN Str(JSONStringify(body)) ELSE body,
                      headers |-> Obj(Merge(Spread(Get(Obj(params), "headers")),
                                            "Content-Type" :> Str("application/json;")))]))
            ELSE Obj(params)]

\* the handler callApi chains on fetch: the state in which the promise
\* callApi returned settles for a response
callApiThenInclusive(response) ==
    IF response.status >= 200 /\ response.status <= 300
    THEN handleSuccessfulResponse(response)
    ELSE IF response.status = 401
         THEN handleUnauthorizedResponse
         ELSE handleErrorResponse(response)

\* the handler callApi chains on fetch: the state in which the promise
\* callApi returned settles for a response
callApiThen(response) ==
    IF response.status >= 200 /\ response.status < 300
    THEN handleSuccessfulResponse(response)
    ELSE IF response.status = 401
         THEN handleUnauthorizedResponse
         ELSE handleErrorResponse(response)

---------------------------------------------------------------------------
(* src/src/lib/index.js: apiMiddleware                                     *)

Pending == [type |-> "promise", value |-> Undef]

\* what one synchronous run of a handler did: the messages it passed to
\* next, the callApi invocations it made, and how it completed
Effect(sent, api, out) == [sent |-> sent, api |-> api, out |-> out]

\* a message on its way to next, with the statement that passed it: the
\* forwarding of line 34 or the dispatch of one of the three phases
Made(kind, msg) == [kind |-> kind, msg |-> msg]

\* the options handed to callApi (lines 64-74); a completion, since calling
\* a getAuthToken that is not a function throws
apiOptionsReplacingHeaders(cfg, apiCall) ==
    LET getAuthToken == Get(cfg, "getAuthToken")
        options == Get(apiCall, "options")
        authenticated == IF Get(apiCall, "authenticated") = Undef
                         THEN Bool(TRUE) ELSE Get(apiCall, "authenticated")
        plain == Spread(options)
    IN  IF Truthy(authenticated) /\ Truthy(getAuthToken)
        THEN IF getAuthToken.k # "function"
             THEN Throw(TypeError("getAuthToken is not a function"))
             ELSE Normal(Obj(Merge(plain,
                    [headers |-> Obj([Authorization |->
                        Str("Bearer " \o TemplateString(getAuthToken.ret))])])))
        ELSE Normal(Obj(plain))

apiOptionsIgnoringAuthenticated(cfg, apiCall) ==
    LET getAuthToken == Get(cfg, "getAuthToken")
        plain == Spread(Get(apiCall, "options"))
    IN  IF Truthy(getAuthToken)
        THEN IF getAuthToken.k # "function"
             THEN Throw(TypeError("getAuthToken is not a function"))
             ELSE Normal(Obj(Merge(plain,
                    [headers |-> Obj(Merge(Spread(Get(Obj(plain), "headers")),
                        [Authorization |->
                            Str("Bearer " \o TemplateString(getAuthToken.ret))]))])))
        ELSE Normal(Obj(plain))

apiOptionsUnlessFalse(cfg, apiCall) ==
    LET getAuthToken == Get(cfg, "getAuthToken")
        plain == Spread(Get(apiCall, "options"))
    IN  IF Get(apiCall, "authenticated") # Bool(FALSE) /\ Truthy(getAuthToken)
        THEN IF getAuthToken.k # "function"
             THEN Throw(TypeError("getAuthToken is not a function"))
             ELSE Normal(Obj(Merge(plain,
                    [headers |-> Obj(Merge(Spread(Get(Obj(plain), "headers")),
                        [Authorization |->
                            Str("Bearer " \o TemplateString(getAuthToken.ret))]))])))
        ELSE Normal(Obj(plain))

apiOptionsSkippingFalsyToken(cfg, apiCall) ==
    LET getAuthToken == Get(cfg, "getAuthToken")
        options == Get(apiCall, "options")
        authenticated == IF Get(apiCall, "authenticated") = Undef
                         THEN Bool(TRUE) ELSE Get(apiCall, "authenticated")
        plain == Spread(options)
    IN  IF Truthy(authenticated) /\ Truthy(getAuthToken)
        THEN IF getAuthToken.k # "function"
             THEN Throw(TypeError("getAuthToken is not a function"))
             ELSE IF ~Truthy(getAuthToken.ret)
             THEN Normal(Obj(plain))
             ELSE Normal(Obj(Merge(plain,
                    [headers |-> Obj(Merge(Spread(Get(Obj(plain), "headers")),
                        [Authorization |->
                            Str("Bearer " \o TemplateString(getAuthToken.ret))]))])))
        ELSE Normal(Obj(plain))

apiOptions(cfg, apiCall) ==
    LET getAuthToken == Get(cfg, "getAuthToken")
        options == Get(apiCall, "options")
        authenticated == IF Get(apiCall, "authenticated") = Undef
                         THEN Bool(TRUE) ELSE Get(apiCall, "authenticated")
        plain == Spread(options)
    IN  IF Truthy(authenticated) /\ Truthy(getAuthToken)
        THEN IF getAuthToken.k # "function"
             THEN Throw(TypeError("getAuthToken is not a function"))
             ELSE Normal(Obj(Merge(plain,
                    [headers |-> Obj(Merge(Spread(Get(Obj(plain), "headers")),
                        [Authorization |->
                            Str("Bearer " \o TemplateString(getAuthToken.ret))]))])))
        ELSE Normal(Obj(plain))

\* the descriptor checks of lines 49-62: the Error thrown, or Normal(Undef)
validateWithoutGroupCheck(apiCall) ==
    LET url == Get(apiCall, "url")
        actions == Get(apiCall, "actions")
    IN  IF TypeOf(url) # "string"
        THEN Throw(Err("Error", "Api call action does not contain url string", NoProps))
        ELSE IF ~Truthy(actions)
        THEN Throw(Err("Error", "Api call action does not contain action group", NoProps))
        ELSE Normal(Undef)

validate(apiCall) ==
    LET url == Get(apiCall, "url")
        actions == Get(apiCall, "actions")
    IN  IF TypeOf(url) # "string"
        THEN Throw(Err("Error", "Api call action does not contain url string", NoProps))
        ELSE IF ~Truthy(actions)
        THEN Throw(Err("Error", "Api call action does not contain action group", NoProps))
        ELSE IF \/ ~Truthy(Get(actions, "SUCCESS"))
                \/ ~Truthy(Get(actions, "ERROR"))
                \/ ~Truthy(Get(actions, "LOADING"))
        THEN Throw(Err("Error", "Api call does not contain a correct action group. "
                        \o "Please use createApiActionSet to create actions.", NoProps))
        ELSE Normal(Undef)

\* lines 33-35: a message without a descriptor goes to next, and what next
\* returns is returned
forwardDropped(action, nx) ==
    Effect(<<Made("FORWARD", action)>>, <<>>,
           IF nx.type = "throw" THEN nx ELSE Normal(Undef))

forward(action, nx) ==
    Effect(<<Made("FORWARD", action)>>, <<>>, nx)

\* the synchronous segment of apiMiddleware(config)(store)(next)(action),
\* lines 29-79; nx is how next completes when this run calls it
apiMiddleware(cfgArg, action, nx) ==
    LET cfg == IF cfgArg = Undef THEN defaultConfig ELSE cfgArg
        apiCall == Get(action, API_CALL)
    IN  IF TypeOf(apiCall) = "undefined"
        THEN forward(action, nx)
        ELSE IF Nullish(apiCall)
        THEN Effect(<<>>, <<>>, Throw(TypeError("Cannot destructure null")))
        ELSE IF validate(apiCall).type = "throw"
        THEN Effect(<<>>, <<>>, validate(apiCall))
        ELSE IF apiOptions(cfg, apiCall).type = "throw"
        THEN Effect(<<>>, <<>>, apiOptions(cfg, apiCall))
        ELSE LET loading == Made("LOADING",
                                 createLoadingAction(Get(apiCall, "actions"),
                                                     Get(apiCall, "meta")).value)
             IN  IF nx.type = "throw"
                 THEN Effect(<<loading>>, <<>>, nx)
                 ELSE Effect(<<loading>>,
                             <<[url |-> Get(apiCall, "url"),
                                body |-> Get(apiCall, "body"),
                                method |-> Get(apiCall, "method"),
                                options |-> apiOptions(cfg, apiCall).value]>>,
                             Pending)

\* the fulfilment handler followed by a catch: the rejection handler also
\* gets what the fulfilment handler threw
onFulfilledThenCaught(apiCall, response, nx) ==
    LET success == Made("SUCCESS", createSuccessAction(Get(apiCall, "actions"), response,
                                                       Get(apiCall, "meta")).value)
    IN  IF nx.type = "throw"
        THEN Effect(<<success,
                      Made("ERROR", createErrorAction(Get(apiCall, "actions"), nx.value,
                                                      Get(apiCall, "meta")).value)>>,
                    <<>>, nx)
        ELSE Effect(<<success>>, <<>>, nx)

\* the fulfilment handler of line 80
onFulfilled(apiCall, response, nx) ==
    Effect(<<Made("SUCCESS", createSuccessAction(Get(apiCall, "actions"), response,
                                                 Get(apiCall, "meta")).value)>>, <<>>, nx)

\* the rejection handler of lines 81-86: reading error.unauthorized throws
\* on undefined and null, and so does error.toString()
onRejected(apiCall, error, nx) ==
    LET made == createErrorAction(Get(apiCall, "actions"), error, Get(apiCall, "meta"))
    IN  IF Nullish(error)
        THEN Effect(<<>>, <<>>, Throw(TypeError("Cannot read properties of " \o error.k)))
        ELSE IF made.type = "throw"
        THEN Effect(<<>>, <<>>, made)
        ELSE Effect(<<Made("ERROR", made.value)>>, <<>>, nx)

---------------------------------------------------------------------------
(* Object identity: the same statements on a heap                          *)

\* The operators above compute with values.  Here an object is an address
\* in a heap, a sequence of property maps, so that a write into an object
\* somebody else holds can be told from a write into a fresh copy.
Ref(a) == [k |-> "ref", a |-> a]

\* {...v}: the own enumerable properties of the object v refers to
Own(h, v) == IF v.k = "ref" THEN h[v.a] ELSE NoProps

\* v[key]
Read(h, v, key) ==
    IF v.k = "ref" /\ key \in DOMAIN h[v.a] THEN h[v.a][key] ELSE Undef

\* an object literal evaluates to a fresh object, the newest of the heap
New(h, props) == Append(h, props)

Newest(h) == Ref(Len(h))

\* v[key] = val
Assign(h, v, key, val) == [h EXCEPT ![v.a] = Merge(@, key :> val)]

RECURSIVE Reify(_, _)
\* the value an address stands for
Reify(h, v) ==
    IF v.k = "ref" THEN Obj([key \in DOMAIN h[v.a] |-> Reify(h, h[v.a][key])]) ELSE v

\* what a run leaves: the heap, and the arguments fetch got, if it was called
Ran(h, url, params) == [heap |-> h, url |-> url, params |-> params]

\* callApi writing into the options it was given, not into a copy
callApiOnHeapAliased(h, url, body, method, options) ==
    LET m == IF method = Undef THEN Str("GET") ELSE method
        h1 == IF options = Undef THEN New(h, NoProps) ELSE h
        o == IF options = Undef THEN Newest(h1) ELSE options
        h2 == Assign(h1, o, "method", m)
        params == o
        h3 == Assign(h2, params, "body",
                     IF Truthy(body) THEN Str(JSONStringify(Reify(h2, body))) ELSE body)
        h4 == New(h3, Merge(Own(h3, Read(h3, params, "headers")),
                            "Content-Type" :> Str("application/json;")))
        h5 == Assign(h4, params, "headers", Newest(h4))
    IN  Ran(IF m = Str("POST") THEN h5 ELSE h2, url, params)

\* callApi, part_001 lines 37-49, up to the call of fetch
callApiOnHeap(h, url, body, method, options) ==
    LET m == IF method = Undef THEN Str("GET") ELSE method
        h1 == IF options = Undef THEN New(h, NoProps) ELSE h
        o == IF options = Undef THEN Newest(h1) ELSE options
        h2 == New(h1, Merge(Own(h1, o), [method |-> m]))
        params == Newest(h2)
        h3 == Assign(h2, params, "body",
                     IF Truthy(body) THEN Str(JSONStringify(Reify(h2, body))) ELSE body)
        h4 == New(h3, Merge(Own(h3, Read(h3, params, "headers")),
                            "Content-Type" :> Str("application/json;")))
        h5 == Assign(h4, params, "headers", Newest(h4))
    IN  Ran(IF m = Str("POST") THEN h5 ELSE h2, url, params)

\* the handlers of index.js lines 80-86: the terminal message is a fresh
\* object; nothing is made when the rejection handler throws
settleOnHeap(h, apiCall, settled) ==
    LET actions == Read(h, apiCall, "actions")
        meta == Read(h, apiCall, "meta")
    IN  IF settled.state = "resolved"
        THEN New(h, Merge([type |-> Read(h, actions, "SUCCESS"),
                           apiActionType |-> Str(apiActionType.SUCCESS),
                           actionName |-> Read(h, actions, "actionName"),
                           response |-> settled.value],
                          Own(h, meta)))
        ELSE IF CallToString(settled.value).type = "throw"
        THEN h
        ELSE New(h, Merge([type |-> Read(h, actions, "ERROR"),
                           apiActionType |-> Str(apiActionType.ERROR),
                           rawError |-> settled.value,
                           error |-> CallToString(settled.value).value,
                           actionName |-> Read(h, actions, "actionName")],
                          Own(h, meta)))

\* apiMiddleware(config)(store)(next)(action), index.js lines 29-87, action
\* being an address: the synchronous segment and then the handler for the
\* settlement settled
apiMiddlewareOnHeap(h, cfgArg, action, nx, settled) ==
    LET cfg == IF cfgArg = Undef THEN defaultConfig ELSE cfgArg
        apiCall == Read(h, action, API_CALL)
        getAuthToken == Get(cfg, "getAuthToken")
        actions == Read(h, apiCall, "actions")
        meta == Read(h, apiCall, "meta")
        options == Read(h, apiCall, "options")
        authenticated == IF Read(h, apiCall, "authenticated") = Undef
                         THEN Bool(TRUE) ELSE Read(h, apiCall, "authenticated")
        withToken == Truthy(authenticated) /\ Truthy(getAuthToken)
        h1 == New(h, Own(h, options))
        h2 == New(h1, Merge(Own(h1, Read(h1, Newest(h1), "headers")),
                            [Authorization |->
                                Str("Bearer " \o TemplateString(getAuthToken.ret))]))
        h3 == New(h2, Merge(Own(h2, Newest(h1)), [headers |-> Newest(h2)]))
        h4 == IF withToken THEN h3 ELSE h1
        h5 == New(h4, Merge([type |-> Read(h4, actions, "LOADING"),
                             apiActionType |-> Str(apiActionType.LOADING),
                             actionName |-> Read(h4, actions, "actionName")],
                            Own(h4, meta)))
        called == callApiOnHeap(h5, Read(h5, apiCall, "url"), Read(h5, apiCall, "body"),
                                Read(h5, apiCall, "method"), Newest(h4))
    IN  IF apiCall.k # "ref" \/ validate(Reify(h, apiCall)).type = "throw"
        THEN Ran(h, Undef, Undef)
        ELSE IF withToken /\ getAuthToken.k # "function"
        THEN Ran(h1, Undef, Undef)
        ELSE IF nx.type = "throw"
        THEN Ran(h5, Undef, Undef)
        ELSE Ran(settleOnHeap(called.heap, apiCall, settled), called.url, called.params)

---------------------------------------------------------------------------
(* The values the environment supplies                                     *)

FETCH == createApiActionSet(Str("FETCH"))

Urls == {Absent, Str("/test"), Num(5)}

Bodies == {Absent, Obj([name |-> Str("a")])}

ActionSets ==
    {Absent, Null, Obj(NoProps), FETCH,
     Obj([LOADING |-> Str("FETCH_LOADING"), SUCCESS |-> Str("FETCH_SUCCESS")]),
     Obj([LOADING |-> Num(1), SUCCESS |-> Bool(TRUE), ERROR |-> Obj(NoProps)])}

Metas ==
    {Absent,
     Obj([firstName |-> Str("John")]),
     Obj([type |-> Str("HIJACKED"), apiActionType |-> Str("NONE"),
          response |-> Str("r"), rawError |-> Str("e"), error |-> Str("s")])}

Methods == {Absent, Str("GET"), Str("POST"), Str("PUT")}

OptionSets ==
    {Absent,
     Obj([method |-> Str("DELETE"), headers |-> Obj([Accept |-> Str("text/plain")])]),
     Obj([headers |-> Obj([Authorization |-> Str("Basic abc")])])}

Authenticateds == {Absent, Bool(TRUE), Bool(FALSE), Null, Num(0), Str("")}

Descriptors ==
    {Literal([url |-> u, body |-> b, actions |-> a, meta |-> m, method |-> me,
              options |-> o, authenticated |-> au]) :
        u \in Urls, b \in Bodies, a \in ActionSets, m \in Metas, me \in Methods,
        o \in OptionSets, au \in Authenticateds}

\* the messages dispatched into the middleware: unrelated ones, and ones
\* with something under the API_CALL key
PlainActions ==
    {Obj([type |-> Str("TEST")]),
     Obj([type |-> Str("TEST"), API_CALL |-> Undef])}

ApiActions == {Obj([API_CALL |-> d]) : d \in Descriptors \cup {Null, Str("/test")}}

Actions == PlainActions \cup ApiActions

\* apiMiddleware(), apiMiddleware(defaultPrefs), and a getAuthToken
\* yielding a token or nothing: undefined, null or the empty string
Configs ==
    {Undef,
     Obj([getAuthToken |-> Null]),
     Obj([getAuthToken |-> Fn(Str("tok"))]),
     Obj([getAuthToken |-> Fn(Undef)]),
     Obj([getAuthToken |-> Fn(Null)]),
     Obj([getAuthToken |-> Fn(Str(""))])}

\* how a call of next completes: it returns a value or throws
NextReturn == Normal(Str("forwarded"))

NextOutcomes == {NextReturn, Throw(Err("Error", "reducer failed", NoProps))}

Statuses == {200, 299, 300, 401, 500}

\* what response.json() yields: a parsed body of some JSON type, or the
\* SyntaxError of a body that is not JSON
JsonResults ==
    {Normal(Obj([test |-> Bool(TRUE)])), Normal(Null), Normal(Str("bad")),
     Throw(Err("SyntaxError", "Unexpected token", NoProps))}

NetworkError == TypeError("Failed to fetch")

---------------------------------------------------------------------------
(* The state machine                                                       *)

NoResult == [type |-> "none", value |-> Undef, state |-> "none"]

\* no body read yet
NoJson == [type |-> "none", value |-> Undef]

Idle ==
    [pc |-> "idle", action |-> Undef, api |-> <<>>, fetched |-> <<>>, status |-> 0,
     json |-> NoJson,
     transport |-> [state |-> "none", value |-> Undef], result |-> NoResult]

\* no function applied on its own
NoApplication == [fn |-> "none"]

\* the record of one call of next: by which call, by which statement, with
\* what message, in which state that call's transport promise was, and how
\* next completed
Sent(c, made, tstate, out) ==
    [call |-> c, kind |-> made.kind, msg |-> made.msg, transport |-> tstate, out |-> out]

Log(c, sent, tstate, out) ==
    [i \in 1..Len(sent) |-> Sent(c, sent[i], tstate, out)]

\* the value apiMiddleware returns or throws, or the promise it returns
ResultOf(out) ==
    IF out.type = "promise"
    THEN [type |-> "promise", value |-> Undef, state |-> "pending"]
    ELSE [type |-> out.type, value |-> out.value, state |-> "none"]

\* the returned promise after its handler ran to completion out
SettledBy(out) ==
    [type |-> "promise", value |-> out.value,
     state |-> IF out.type = "throw" THEN "rejected" ELSE "fulfilled"]

Init ==
    /\ config \in Configs
    /\ calls = [c \in {1} |-> Idle]
    /\ dispatched = <<>>
    /\ applied = NoApplication

\* store.dispatch(action) reaches the middleware, action being one of pool:
\* the synchronous segment up to and including the fetch call of callApi
Dispatch(c, pool) ==
    /\ calls[c].pc = "idle"
    /\ \E action \in pool, nx \in NextOutcomes :
          LET e == apiMiddleware(config, action, nx)
              args == e.api
          IN  /\ e.sent # <<>> \/ nx = NextReturn
              /\ calls' = [calls EXCEPT ![c] =
                    [@ EXCEPT !.action = action,
                              !.api = args,
                              !.fetched = [i \in 1..Len(args) |->
                                  callApi(args[i].url, args[i].body,
                                          args[i].method, args[i].options)],
                              !.transport = [state |-> IF args = <<>> THEN "none" ELSE "pending",
                                             value |-> Undef],
                              !.result = ResultOf(e.out),
                              !.pc = CASE e.out.type = "promise" -> "fetching"
                                       [] e.out.type = "throw" -> "thrown"
                                       [] OTHER -> "returned"]]
              /\ dispatched' = dispatched \o Log(c, e.sent, "none", nx)
    /\ UNCHANGED <<config, applied>>

\* fetch resolves with a response; a 401 settles callApi's promise at once,
\* any other status goes on to read the body
FetchResolve(c) ==
    /\ calls[c].pc = "fetching"
    /\ \E status \in Statuses :
          calls' = [calls EXCEPT ![c] =
              IF status = 401
              THEN [@ EXCEPT !.status = status, !.pc = "settled",
                             !.transport = callApiThen([status |-> status,
                                                        json |-> Normal(Undef)])]
              ELSE [@ EXCEPT !.status = status, !.pc = "parsing"]]
    /\ UNCHANGED <<config, dispatched, applied>>

\* fetch rejects: a network error
FetchReject(c) ==
    /\ calls[c].pc = "fetching"
    /\ calls' = [calls EXCEPT ![c] =
          [@ EXCEPT !.pc = "settled",
                    !.transport = [state |-> "rejected", value |-> NetworkError]]]
    /\ UNCHANGED <<config, dispatched, applied>>

\* response.json() settles and with it the promise callApi returned
JsonSettle(c) ==
    /\ calls[c].pc = "parsing"
    /\ \E json \in JsonResults :
          calls' = [calls EXCEPT ![c] =
              [@ EXCEPT !.pc = "settled",
                        !.json = json,
                        !.transport = callApiThen([status |-> calls[c].status,
                                                   json |-> json])]]
    /\ UNCHANGED <<config, dispatched, applied>>

\* the handler apiMiddleware chained on callApi's promise runs
Then(c) ==
    /\ calls[c].pc = "settled"
    /\ \E nx \in NextOutcomes :
          LET apiCall == Get(calls[c].action, API_CALL)
              t == calls[c].transport
              e == IF t.state = "resolved"
                   THEN onFulfilled(apiCall, t.value, nx)
                   ELSE onRejected(apiCall, t.value, nx)
          IN  /\ e.sent # <<>> \/ nx = NextReturn
              /\ calls' = [calls EXCEPT ![c] =
                    [@ EXCEPT !.pc = "done", !.api = @ \o e.api,
                              !.result = SettledBy(e.out)]]
              /\ dispatched' = dispatched \o Log(c, e.sent, t.state, nx)
    /\ UNCHANGED <<config, applied>>

Invoke(c) == Dispatch(c, Actions)

Next ==
    \/ \E c \in DOMAIN calls : Invoke(c)
    \/ \E c \in DOMAIN calls : FetchResolve(c)
    \/ \E c \in DOMAIN calls : FetchReject(c)
    \/ \E c \in DOMAIN calls : JsonSettle(c)
    \/ \E c \in DOMAIN calls : Then(c)

Spec == Init /\ [][Next]_vars

---------------------------------------------------------------------------
(* Several calls in flight on one middleware instance                      *)

\* the number of calls in flight at once
NumConc == 2

\* the c-th base name, url and meta: every call has its own
IndexDigit(c) == CASE c = 1 -> "1" [] c = 2 -> "2" [] c = 3 -> "3" [] OTHER -> "n"

ConcurrentName(c) == Str("TEST_ACTION_" \o IndexDigit(c))

\* the valid descriptor call c dispatches: its own url, action set and meta,
\* every second one a POST with a body
ConcurrentDescriptor(c) ==
    Literal([url |-> Str("/test/" \o IndexDigit(c)),
             body |-> IF c % 2 = 0 THEN Obj([name |-> Str("a")]) ELSE Absent,
             actions |-> createApiActionSet(ConcurrentName(c)),
             meta |-> Obj([id |-> Num(c)]),
             method |-> IF c % 2 = 0 THEN Str("POST") ELSE Absent,
             options |-> Absent,
             authenticated |-> Absent])

ConcurrentActions(c) == {Obj([API_CALL |-> ConcurrentDescriptor(c)])}

InitConcurrent ==
    /\ config \in Configs
    /\ calls = [c \in 1..NumConc |-> Idle]
    /\ dispatched = <<>>
    /\ applied = NoApplication

InvokeConcurrent(c) == Dispatch(c, ConcurrentActions(c))

NextConcurrent ==
    \/ \E c \in DOMAIN calls : InvokeConcurrent(c)
    \/ \E c \in DOMAIN calls : FetchResolve(c)
    \/ \E c \in DOMAIN calls : FetchReject(c)
    \/ \E c \in DOMAIN calls : JsonSettle(c)
    \/ \E c \in DOMAIN calls : Then(c)

SpecConcurrent == InitConcurrent /\ [][NextConcurrent]_vars

---------------------------------------------------------------------------
(* The exported functions applied on their own                             *)

\* base names, among them the empty one and one that ends like a type
Names == {Str(""), Str("FETCH"), Str("TEST_ACTION"), Str("FETCH_SUCCESS")}

\* the action sets handed to the constructors
ActionSetArgs ==
    {FETCH, createApiActionSet(Str("TEST_ACTION")),
     Obj([LOADING |-> Num(1), SUCCESS |-> Bool(TRUE), ERROR |-> Obj(NoProps)])}

\* the meta argument: left out, or one of the mappings of Metas
MetaArgs == {Undef} \cup (Metas \ {Absent})

\* error values: what callApi rejects with (Error objects, parsed bodies of
\* every JSON type) and what a caller of createErrorAction may pass
ErrorValues ==
    {Null, Undef, Str("boom"), Str(""), Num(0), Num(404), Bool(FALSE),
     Obj([testResponse |-> Str("Test Error")]),
     Obj([toString |-> Str("shadowed")]),
     Err("Error", "401 - Unauthorized", [unauthorized |-> Bool(TRUE)]),
     NetworkError}

Responses == {Undef, Null, Str("ok"), Obj([test |-> Bool(TRUE)])}

\* what the caller holds before a call: at address 1 the message, at 2 its
\* descriptor, then the action set, the meta, the options, the headers of
\* the options, and the body
CallerHeaps ==
    {<<IF plain THEN [type |-> Str("TEST")] ELSE [API_CALL |-> Ref(2)],
       Literal([url |-> Str("/test"), body |-> b, actions |-> Ref(3), meta |-> m,
                method |-> me, options |-> o, authenticated |-> au]).f,
       FETCH.f,
       [firstName |-> Str("John")],
       Literal([method |-> om, headers |-> oh]).f,
       [Accept |-> Str("text/plain")],
       [name |-> Str("a")]>> :
        plain \in BOOLEAN, b \in {Absent, Ref(7)}, m \in {Absent, Ref(4)},
        me \in Methods, o \in {Absent, Ref(5)}, au \in {Absent, Bool(TRUE), Bool(FALSE)},
        om \in {Absent, Str("DELETE")}, oh \in {Absent, Ref(6)}}

\* how the transport settles
Settlements ==
    {[state |-> "resolved", value |-> Str("ok")],
     [state |-> "rejected", value |-> NetworkError],
     [state |-> "rejected", value |-> Null]}

\* one application per run: fn was applied to args and completed as out
Applied(fn, args, out) == [fn |-> fn, args |-> args, out |-> out]

InitFunctions ==
    /\ config = Undef
    /\ calls = [c \in {} |-> Idle]
    /\ dispatched = <<>>
    /\ applied = NoApplication

ApplyCreateApiActionSet ==
    /\ applied = NoApplication
    /\ \E n \in Names :
          applied' = Applied("createApiActionSet", <<n>>, Normal(createApiActionSet(n)))
    /\ UNCHANGED <<config, calls, dispatched>>

ApplyCreateLoadingAction ==
    /\ applied = NoApplication
    /\ \E a \in ActionSetArgs, m \in MetaArgs :
          applied' = Applied("createLoadingAction", <<a, m>>, createLoadingAction(a, m))
    /\ UNCHANGED <<config, calls, dispatched>>

ApplyCreateSuccessAction ==
    /\ applied = NoApplication
    /\ \E a \in ActionSetArgs, r \in Responses, m \in MetaArgs :
          applied' = Applied("createSuccessAction", <<a, r, m>>,
                             createSuccessAction(a, r, m))
    /\ UNCHANGED <<config, calls, dispatched>>

ApplyCreateErrorAction ==
    /\ applied = NoApplication
    /\ \E a \in ActionSetArgs, e \in ErrorValues, m \in MetaArgs :
          applied' = Applied("createErrorAction", <<a, e, m>>,
                             createErrorAction(a, e, m))
    /\ UNCHANGED <<config, calls, dispatched>>

\* callApi called directly with the caller's own body and options
ApplyCallApi ==
    /\ applied = NoApplication
    /\ \E h \in CallerHeaps, body \in {Undef, Ref(7)}, method \in Methods,
          options \in {Undef, Ref(5)} :
          LET me == IF method = Absent THEN Undef ELSE method
          IN  applied' = Applied("callApi", <<h, Str("/test"), body, me, options>>,
                                 Normal(callApiOnHeap(h, Str("/test"), body, me, options)))
    /\ UNCHANGED <<config, calls, dispatched>>

ApplyApiMiddleware ==
    /\ applied = NoApplication
    /\ \E h \in CallerHeaps, cfg \in Configs, nx \in NextOutcomes, settled \in Settlements :
          applied' = Applied("apiMiddleware", <<h, cfg, Ref(1)>>,
                             Normal(apiMiddlewareOnHeap(h, cfg, Ref(1), nx, settled)))
    /\ UNCHANGED <<config, calls, dispatched>>

NextFunctions ==
    \/ ApplyCreateApiActionSet
    \/ ApplyCreateLoadingAction
    \/ ApplyCreateSuccessAction
    \/ ApplyCreateErrorAction
    \/ ApplyCallApi
    \/ ApplyApiMiddleware

SpecFunctions == InitFunctions /\ [][NextFunctions]_vars

---------------------------------------------------------------------------
(* Vocabulary of the properties                                            *)

LifecycleKeys == {"LOADING", "SUCCESS", "ERROR"}

Invoked(c) == calls[c].pc # "idle"

ApiCallOf(c) == Get(calls[c].action, API_CALL)

\* the message of call c carries something under API_CALL
Intercepted(c) == Invoked(c) /\ ApiCallOf(c) # Undef

\* the positions in the log of next at which call c passed a message
SentBy(c, kind) ==
    {i \in DOMAIN dispatched : dispatched[i].call = c /\ dispatched[i].kind = kind}

AllSentBy(c) == {i \in DOMAIN dispatched : dispatched[i].call = c}

\* a string url and truthy LOADING, SUCCESS and ERROR
ValidDescriptor(d) ==
    /\ Get(d, "url").k = "string"
    /\ \A key \in LifecycleKeys : Truthy(Get(Get(d, "actions"), key))

\* LOADING, SUCCESS and ERROR all present and all strings
ValidActionSet(a) ==
    \A key \in LifecycleKeys : Get(a, key).k = "string"

---------------------------------------------------------------------------
(* C1..C5: lifecycle, validation, pass-through                             *)

\* C1: a call with a valid Call Descriptor dispatches exactly one Loading
\* message, in the synchronous segment and before its transport call
\* exists, let alone settles; once the transport has settled and the
\* handler has run it has dispatched exactly one terminal message, Success
\* if the transport resolved and Error if it rejected, and none before.
C1_OneLoadingThenOneTerminal ==
    \A c \in DOMAIN calls :
        Invoked(c) /\ ValidDescriptor(ApiCallOf(c)) =>
            /\ Cardinality(SentBy(c, "LOADING")) = 1
            /\ \A i \in SentBy(c, "LOADING") :
                  /\ dispatched[i].transport = "none"
                  /\ \A j \in AllSentBy(c) : i <= j
            /\ calls[c].pc = "done" =>
                  /\ Cardinality(SentBy(c, "SUCCESS")) =
                        (IF calls[c].transport.state = "resolved" THEN 1 ELSE 0)
                  /\ Cardinality(SentBy(c, "ERROR")) =
                        (IF calls[c].transport.state = "rejected" THEN 1 ELSE 0)
            /\ calls[c].pc # "done" =>
                  SentBy(c, "SUCCESS") \cup SentBy(c, "ERROR") = {}

\* C2: a message whose descriptor has a non-string url, no actions or an
\* action set lacking LOADING, SUCCESS or ERROR makes apiMiddleware throw
\* synchronously, with no call of next and no call of the transport.
C2_MalformedDescriptorThrows ==
    \A c \in DOMAIN calls :
        Intercepted(c) /\ ~ValidDescriptor(ApiCallOf(c)) =>
            /\ calls[c].pc = "thrown"
            /\ calls[c].result.type = "throw"
            /\ AllSentBy(c) = {}
            /\ calls[c].api = <<>>
            /\ calls[c].fetched = <<>>

\* a descriptor with a string url and an action set without ERROR was thrown
C2_Witness ==
    \E c \in DOMAIN calls :
        /\ calls[c].pc = "thrown"
        /\ Get(ApiCallOf(c), "url") = Str("/test")
        /\ Truthy(Get(Get(ApiCallOf(c), "actions"), "LOADING"))
        /\ Get(Get(ApiCallOf(c), "actions"), "ERROR") = Undef

\* C3: a message without a descriptor under API_CALL is passed to next
\* exactly once and unchanged, apiMiddleware completes as next did (it
\* returns what next returned), and neither a lifecycle message nor a
\* transport call is made.
C3_PassThrough ==
    \A c \in DOMAIN calls :
        Invoked(c) /\ ApiCallOf(c) = Undef =>
            /\ Cardinality(AllSentBy(c)) = 1
            /\ \A i \in AllSentBy(c) :
                  /\ dispatched[i].kind = "FORWARD"
                  /\ dispatched[i].msg = calls[c].action
                  /\ calls[c].result.type = dispatched[i].out.type
                  /\ calls[c].result.value = dispatched[i].out.value
            /\ calls[c].api = <<>>
            /\ calls[c].fetched = <<>>

\* an unrelated message went through and next's value came back
C3_Witness ==
    \E c \in DOMAIN calls :
        /\ calls[c].pc = "returned"
        /\ API_CALL \notin DOMAIN calls[c].action.f
        /\ calls[c].result.value = NextReturn.value
        /\ dispatched # <<>>

\* C4: whatever the transport rejects with, the handler dispatches an Error
\* message and does not throw: when next returns for that message the
\* promise apiMiddleware returned is fulfilled.
C4_RejectionBecomesErrorMessage ==
    \A c \in DOMAIN calls :
        calls[c].pc = "done" /\ calls[c].transport.state = "rejected" =>
            /\ Cardinality(SentBy(c, "ERROR")) = 1
            /\ \A i \in SentBy(c, "ERROR") :
                  dispatched[i].out.type = "normal" =>
                      calls[c].result.state = "fulfilled"

\* C5: a descriptor whose actions is not an Action Set of three strings is
\* thrown out at intercept time: no Loading message, no transport call.
C5_NonStringActionSetRejected ==
    \A c \in DOMAIN calls :
        Intercepted(c) /\ ~ValidActionSet(Get(ApiCallOf(c), "actions")) =>
            /\ calls[c].result.type = "throw"
            /\ SentBy(c, "LOADING") = {}
            /\ calls[c].api = <<>>

---------------------------------------------------------------------------
(* C6..C8: the Authorization header                                        *)

\* the configured getAuthToken, Undef when there is none
TokenSource == Get(config, "getAuthToken")

HasTokenSource == TokenSource.k = "function"

\* the options the caller put in the descriptor, the options callApi
\* received and the parameters fetch received
GivenOptions(c) == Get(ApiCallOf(c), "options")

PassedOptions(c) == calls[c].api[1].options

FetchParams(c) == calls[c].fetched[1].params

HeaderOf(options, name) == Get(Get(options, "headers"), name)

HeaderNames(options) == DOMAIN Spread(Get(options, "headers"))

\* "Bearer " + t
Bearer(t) == Str("Bearer " \o (IF t.k = "string" THEN t.s ELSE t.k))

\* C6: with authenticated omitted or true and getAuthToken yielding the
\* token t, the options passed to the transport (and then to fetch) carry
\* Authorization = "Bearer " + t, and every other header and every other
\* option of the caller is still there with its value.
C6_BearerHeaderMerged ==
    \A c \in DOMAIN calls :
        /\ calls[c].api # <<>>
        /\ Get(ApiCallOf(c), "authenticated") \in {Undef, Bool(TRUE)}
        /\ HasTokenSource
        /\ TokenSource.ret.k = "string"
        => /\ HeaderOf(PassedOptions(c), "Authorization") = Bearer(TokenSource.ret)
           /\ HeaderOf(FetchParams(c), "Authorization") = Bearer(TokenSource.ret)
           /\ \A key \in DOMAIN Spread(GivenOptions(c)) \ {"headers"} :
                 /\ key \in DOMAIN PassedOptions(c).f
                 /\ PassedOptions(c).f[key] = GivenOptions(c).f[key]
           /\ \A name \in HeaderNames(GivenOptions(c)) \ {"Authorization"} :
                 /\ name \in HeaderNames(PassedOptions(c))
                 /\ name \in HeaderNames(FetchParams(c))
                 /\ HeaderOf(PassedOptions(c), name) = HeaderOf(GivenOptions(c), name)
                 /\ HeaderOf(FetchParams(c), name) = HeaderOf(GivenOptions(c), name)

\* a call with authenticated omitted, token "tok" and a caller who set an
\* Accept header and another option reached the transport
C6_Witness ==
    \E c \in DOMAIN calls :
        /\ calls[c].api # <<>>
        /\ "authenticated" \notin DOMAIN ApiCallOf(c).f
        /\ HasTokenSource /\ TokenSource.ret = Str("tok")
        /\ "Accept" \in HeaderNames(GivenOptions(c))
        /\ "method" \in DOMAIN Spread(GivenOptions(c))

\* C7 as stated: with authenticated false the options passed to the
\* transport hold no Authorization header, whatever the caller's options.
C7_NoAuthorizationHeaderAtAll ==
    \A c \in DOMAIN calls :
        calls[c].api # <<>> /\ Get(ApiCallOf(c), "authenticated") = Bool(FALSE) =>
            "Authorization" \notin HeaderNames(PassedOptions(c))

\* C7, amended: with authenticated false the middleware adds no
\* Authorization header, whatever token source is configured: the headers
\* passed to the transport are the caller's own, so that an Authorization
\* header is there only if the caller supplied it, with the caller's value.
C7_NoHeaderAdded ==
    \A c \in DOMAIN calls :
        calls[c].api # <<>> /\ Get(ApiCallOf(c), "authenticated") = Bool(FALSE) =>
            /\ HeaderNames(PassedOptions(c)) = HeaderNames(GivenOptions(c))
            /\ \A name \in HeaderNames(GivenOptions(c)) :
                  HeaderOf(PassedOptions(c), name) = HeaderOf(GivenOptions(c), name)

\* a call with authenticated false reached the transport although a token
\* source is configured
C7_Witness ==
    \E c \in DOMAIN calls :
        /\ calls[c].api # <<>>
        /\ Get(ApiCallOf(c), "authenticated") = Bool(FALSE)
        /\ HasTokenSource /\ TokenSource.ret = Str("tok")
        /\ "Accept" \in HeaderNames(GivenOptions(c))

\* C8 as stated: the Bearer header is attached whenever authenticated is
\* anything but false and getAuthToken is configured.
C8_HeaderUnlessExplicitlyFalse ==
    \A c \in DOMAIN calls :
        /\ calls[c].api # <<>>
        /\ HasTokenSource
        /\ Get(ApiCallOf(c), "authenticated") # Bool(FALSE)
        => HeaderOf(PassedOptions(c), "Authorization") = Bearer(TokenSource.ret)

\* C8, amended: with getAuthToken configured the Bearer header is attached
\* exactly when authenticated is omitted (undefined) or truthy; for false,
\* null, 0 and the empty string nothing is attached and the Authorization
\* header stays what the caller supplied, if anything.
C8_HeaderIffTruthy ==
    \A c \in DOMAIN calls :
        calls[c].api # <<>> /\ HasTokenSource =>
            LET authenticated == Get(ApiCallOf(c), "authenticated")
            IN  IF authenticated = Undef \/ Truthy(authenticated)
                THEN HeaderOf(PassedOptions(c), "Authorization") = Bearer(TokenSource.ret)
                ELSE HeaderOf(PassedOptions(c), "Authorization") =
                        HeaderOf(GivenOptions(c), "Authorization")

\* a call with authenticated null reached the transport with a token
\* source configured
C8_Witness ==
    \E c \in DOMAIN calls :
        /\ calls[c].api # <<>>
        /\ HasTokenSource
        /\ Get(ApiCallOf(c), "authenticated") = Null

---------------------------------------------------------------------------
(* C9, C10: the emitted messages                                           *)

ReservedFields == {"type", "apiActionType", "response", "rawError", "error"}

MetaOf(c) == Get(ApiCallOf(c), "meta")

\* the statements by which call c passed messages to next, in order
KindsBy(c) ==
    LET mine == SelectSeq(dispatched, LAMBDA e : e.call = c)
    IN  [i \in 1..Len(mine) |-> mine[i].kind]

\* C9: for a valid descriptor whose meta collides with no reserved field, a
\* transport that resolved with p gives [Loading, Success] with response p,
\* and one that rejected with e gives [Loading, Error] with rawError e and
\* error the string form of e.
C9_SequenceAndPayload ==
    \A c \in DOMAIN calls :
        /\ calls[c].pc = "done"
        /\ ValidDescriptor(ApiCallOf(c))
        /\ DOMAIN Spread(MetaOf(c)) \cap ReservedFields = {}
        => IF calls[c].transport.state = "resolved"
           THEN /\ KindsBy(c) = <<"LOADING", "SUCCESS">>
                /\ \A i \in SentBy(c, "SUCCESS") :
                      Get(dispatched[i].msg, "response") = calls[c].transport.value
           ELSE /\ KindsBy(c) = <<"LOADING", "ERROR">>
                /\ \A i \in SentBy(c, "ERROR") :
                      /\ Get(dispatched[i].msg, "rawError") = calls[c].transport.value
                      /\ Get(dispatched[i].msg, "error") =
                            Str(TemplateString(calls[c].transport.value))

\* C10 as stated: every lifecycle message, for every meta, has the type its
\* Action Set names for the phase and the phase marker as apiActionType.
C10_TypeAndMarkerForEveryMeta ==
    \A i \in DOMAIN dispatched :
        dispatched[i].kind \in LifecycleKeys =>
            LET d == ApiCallOf(dispatched[i].call)
            IN  /\ Get(dispatched[i].msg, "type") = Get(Get(d, "actions"), dispatched[i].kind)
                /\ Get(dispatched[i].msg, "apiActionType") = Str(dispatched[i].kind)

\* C10, amended: every lifecycle message of a descriptor whose meta has
\* neither a type nor an apiActionType key has the type its Action Set
\* names for the phase and the phase marker as apiActionType.
C10_TypeAndMarker ==
    \A i \in DOMAIN dispatched :
        /\ dispatched[i].kind \in LifecycleKeys
        /\ DOMAIN Spread(MetaOf(dispatched[i].call)) \cap {"type", "apiActionType"} = {}
        => LET d == ApiCallOf(dispatched[i].call)
           IN  /\ Get(dispatched[i].msg, "type") = Get(Get(d, "actions"), dispatched[i].kind)
               /\ Get(dispatched[i].msg, "apiActionType") = Str(dispatched[i].kind)

\* a Success message was dispatched for a descriptor with harmless meta
C10_Witness ==
    \E i \in DOMAIN dispatched :
        /\ dispatched[i].kind = "SUCCESS"
        /\ MetaOf(dispatched[i].call) = Obj([firstName |-> Str("John")])
        /\ Get(dispatched[i].msg, "firstName") = Str("John")

---------------------------------------------------------------------------
(* C11..C13: meta, response handling, request parameters                   *)

\* C11: every lifecycle message holds each key of the descriptor's meta
\* with meta's value, also where the key is one of the reserved fields,
\* whose own value is then overwritten.
C11_MetaSplicedLast ==
    \A i \in DOMAIN dispatched :
        dispatched[i].kind \in LifecycleKeys =>
            \A key \in DOMAIN Spread(MetaOf(dispatched[i].call)) :
                /\ key \in DOMAIN dispatched[i].msg.f
                /\ dispatched[i].msg.f[key] = MetaOf(dispatched[i].call).f[key]

\* a Loading and an Error message went out for a meta that collides with
\* all five reserved fields
C11_Witness ==
    /\ \E i \in DOMAIN dispatched :
          /\ dispatched[i].kind = "LOADING"
          /\ Get(dispatched[i].msg, "type") = Str("HIJACKED")
    /\ \E i \in DOMAIN dispatched :
          /\ dispatched[i].kind = "ERROR"
          /\ ReservedFields \subseteq DOMAIN Spread(MetaOf(dispatched[i].call))
          /\ Get(dispatched[i].msg, "rawError") = Str("e")

\* the promise callApi returned has settled for a response
TransportSettled(c) == calls[c].pc \in {"settled", "done"} /\ calls[c].status # 0

\* C12: the status decides the outcome of callApi: from 200 up to 299 it
\* resolves with the parsed JSON body, 401 rejects with an error whose
\* unauthorized flag is true, and any other status rejects with the parsed
\* body itself; a body that does not parse has no parsed form and rejects
\* with the parse error.
C12_StatusDecidesOutcome ==
    \A c \in DOMAIN calls :
        TransportSettled(c) =>
            LET status == calls[c].status
                json == calls[c].json
                t == calls[c].transport
            IN  IF status = 401
                THEN /\ t.state = "rejected"
                     /\ Get(t.value, "unauthorized") = Bool(TRUE)
                     /\ json = NoJson
                ELSE /\ json.type = "normal" =>
                          /\ t.value = json.value
                          /\ t.state = (IF status >= 200 /\ status < 300
                                        THEN "resolved" ELSE "rejected")
                     /\ json.type = "throw" =>
                          t = [state |-> "rejected", value |-> json.value]

\* a response with status 300 and a JSON object as body was rejected with
\* that object
C12_Witness ==
    \E c \in DOMAIN calls :
        /\ TransportSettled(c)
        /\ calls[c].status = 300
        /\ calls[c].json = Normal(Obj([test |-> Bool(TRUE)]))
        /\ calls[c].transport.state = "rejected"

\* the methods the claim calls POST-like
PostLikeMethods == {"POST", "PUT", "PATCH"}

\* the method callApi works with: GET unless the descriptor names one
MethodOf(c) ==
    IF calls[c].api[1].method = Undef THEN "GET" ELSE calls[c].api[1].method.s

\* C13: for POST, PUT and PATCH the request handed to fetch carries the JSON
\* serialisation of body and a JSON Content-Type header next to the
\* caller's other headers; for any other method it carries no body and the
\* caller's headers as they were.
C13_PostLikeCarriesJsonBody ==
    \A c \in DOMAIN calls :
        calls[c].fetched # <<>> =>
            LET args == calls[c].api[1]
                params == FetchParams(c)
            IN  IF MethodOf(c) \in PostLikeMethods
                THEN /\ args.body # Undef =>
                            Get(params, "body") = Str(JSONStringify(args.body))
                     /\ HeaderOf(params, "Content-Type") = Str("application/json;")
                     /\ \A name \in HeaderNames(args.options) \ {"Content-Type"} :
                            HeaderOf(params, name) = HeaderOf(args.options, name)
                ELSE /\ "body" \notin DOMAIN params.f
                     /\ Get(params, "headers") = Get(args.options, "headers")

---------------------------------------------------------------------------
(* C15: the unauthorized response                                          *)

---------------------------------------------------------------------------
(* C18, C19: one transport call, and the returned promise                  *)

\* the terminal messages of call c in the log of next
TerminalBy(c) == SentBy(c, "SUCCESS") \cup SentBy(c, "ERROR")

\* C18: for a valid descriptor whose Loading dispatch returned, the
\* transport is called exactly once, after the Loading message went out,
\* and never again; a transport failure shows as exactly one Error message.
C18_OneTransportCallOneError ==
    \A c \in DOMAIN calls :
        /\ Invoked(c)
        /\ ValidDescriptor(ApiCallOf(c))
        /\ \A i \in SentBy(c, "LOADING") : dispatched[i].out.type = "normal"
        => /\ Len(calls[c].api) = 1
           /\ Len(calls[c].fetched) = 1
           /\ \E i \in SentBy(c, "LOADING") : dispatched[i].transport = "none"
           /\ calls[c].pc = "done" /\ calls[c].transport.state = "rejected" =>
                 Cardinality(SentBy(c, "ERROR")) = 1

\* C19: the promise apiMiddleware returned is settled only once the call's
\* terminal message has gone through next, never while only the Loading
\* message has, and when next returned for the terminal message the promise
\* is fulfilled with what next returned.
C19_PromiseSettlesAfterTerminal ==
    \A c \in DOMAIN calls :
        calls[c].result.type = "promise" =>
            /\ calls[c].result.state # "pending" => TerminalBy(c) # {}
            /\ \A i \in TerminalBy(c) :
                  dispatched[i].out.type = "normal" =>
                      /\ calls[c].result.state = "fulfilled"
                      /\ calls[c].result.value = dispatched[i].out.value

---------------------------------------------------------------------------
(* C16, C17: the constructors on their own                                 *)

\* C16: createErrorAction(actions, err, meta) returns a message whose error
\* is err.toString() and whose rawError is err, for every err and meta.
C16_ErrorRoundTrip ==
    applied.fn = "createErrorAction" =>
        /\ applied.out.type = "normal"
        /\ Get(applied.out.value, "rawError") = applied.args[2]
        /\ Get(applied.out.value, "error") = CallToString(applied.args[2]).value

\* C17: createApiActionSet(n) has LOADING = n + "_LOADING", SUCCESS =
\* n + "_SUCCESS", ERROR = n + "_ERROR" and actionName = n; the three types
\* differ from each other, and a descriptor with this action set passes the
\* checks of apiMiddleware.
C17_ActionSetOfName ==
    applied.fn = "createApiActionSet" =>
        LET n == applied.args[1]
            set == applied.out.value
        IN  /\ Get(set, "LOADING") = Str(n.s \o "_LOADING")
            /\ Get(set, "SUCCESS") = Str(n.s \o "_SUCCESS")
            /\ Get(set, "ERROR") = Str(n.s \o "_ERROR")
            /\ Get(set, "actionName") = n
            /\ Cardinality({Get(set, key) : key \in LifecycleKeys}) = 3
            /\ ValidActionSet(set)
            /\ validate(Obj([url |-> Str("/test"), actions |-> set])) = Normal(Undef)

\* the action set of the empty base name was made
C17_Witness ==
    /\ applied.fn = "createApiActionSet"
    /\ applied.args = <<Str("")>>
    /\ Get(applied.out.value, "ERROR") = Str("_ERROR")

---------------------------------------------------------------------------
(* C14: calls in flight at the same time                                   *)

\* the types of the action set of call c
TypesOf(c) == {Get(Get(ApiCallOf(c), "actions"), key) : key \in LifecycleKeys}

\* message msg of kind kind is the one call c makes: its own type and meta,
\* and as payload what its own transport settled with
OwnMessage(c, kind, msg) ==
    /\ Get(msg, "type") = Get(Get(ApiCallOf(c), "actions"), kind)
    /\ Get(msg, "actionName") = Get(Get(ApiCallOf(c), "actions"), "actionName")
    /\ Get(msg, "id") = Get(MetaOf(c), "id")
    /\ kind = "SUCCESS" => Get(msg, "response") = calls[c].transport.value
    /\ kind = "ERROR" => Get(msg, "rawError") = calls[c].transport.value

\* C14: with two valid descriptors in flight at once, in every interleaving
\* each call's Loading message comes before its own Success or Error, each
\* call whose handler has run has exactly one terminal message, and every
\* message carries the types, meta and payload of its own call, never
\* those of the other.
C14_ConcurrentCallsIsolated ==
    \A c \in DOMAIN calls :
        Invoked(c) /\ ValidDescriptor(ApiCallOf(c)) =>
            /\ \A j \in TerminalBy(c) : \E i \in SentBy(c, "LOADING") : i < j
            /\ calls[c].pc = "done" => Cardinality(TerminalBy(c)) = 1
            /\ calls[c].pc # "done" => TerminalBy(c) = {}
            /\ \A i \in AllSentBy(c) :
                  /\ OwnMessage(c, dispatched[i].kind, dispatched[i].msg)
                  /\ \A o \in DOMAIN calls \ {c} :
                        Invoked(o) => Get(dispatched[i].msg, "type") \notin TypesOf(o)

\* the same with the calls left aside whose transport rejected with null or
\* undefined
C14_IsolatedUnlessNullRejection ==
    \A c \in DOMAIN calls :
        Invoked(c) /\ ValidDescriptor(ApiCallOf(c))
        /\ ~(calls[c].transport.state = "rejected" /\ Nullish(calls[c].transport.value)) =>
            /\ \A j \in TerminalBy(c) : \E i \in SentBy(c, "LOADING") : i < j
            /\ calls[c].pc = "done" => Cardinality(TerminalBy(c)) = 1
            /\ calls[c].pc # "done" => TerminalBy(c) = {}
            /\ \A i \in AllSentBy(c) :
                  /\ OwnMessage(c, dispatched[i].kind, dispatched[i].msg)
                  /\ \A o \in DOMAIN calls \ {c} :
                        Invoked(o) => Get(dispatched[i].msg, "type") \notin TypesOf(o)

\* both calls in flight, the second dispatched first settled first
C14_Interleaved ==
    /\ DOMAIN calls = {1, 2}
    /\ calls[1].pc = "done" /\ calls[2].pc = "done"
    /\ \E i \in SentBy(2, "LOADING"), j \in SentBy(1, "LOADING"),
          k \in SentBy(1, "ERROR"), l \in SentBy(2, "SUCCESS") :
          i < j /\ j < k /\ k < l

---------------------------------------------------------------------------
(* C20: what the caller passed in stays as it was                          *)

OnHeap == applied.fn \in {"callApi", "apiMiddleware"}

\* the heap the caller held, and the run on it
HeapBefore == applied.args[1]

HeapAfter == applied.out.value.heap

ParamsAfter == applied.out.value.params

\* C20: after apiMiddleware or callApi has run, every object the caller
\* held (the message, its descriptor, the action set, the meta, the
\* options, their headers, the body) has the properties it had before;
\* the object handed to fetch is a fresh one, and so is its headers object
\* whenever it carries the bearer Authorization or the Content-Type.
C20_CallerObjectsUntouched ==
    OnHeap =>
        /\ Len(HeapAfter) >= Len(HeapBefore)
        /\ \A a \in DOMAIN HeapBefore : HeapAfter[a] = HeapBefore[a]
        /\ ParamsAfter # Undef =>
              /\ ParamsAfter.a \notin DOMAIN HeapBefore
              /\ LET headers == Read(HeapAfter, ParamsAfter, "headers")
                 IN  \/ Read(HeapAfter, headers, "Content-Type") # Undef
                     \/ Read(HeapAfter, headers, "Authorization") # Undef
                     => headers.a \notin DOMAIN HeapBefore

\* a POST through the middleware with a token, the caller's options having
\* headers of their own: fetch got both added headers and the caller's one
C20_Witness ==
    /\ applied.fn = "apiMiddleware"
    /\ Read(HeapBefore, Ref(5), "headers") = Ref(6)
    /\ Read(HeapBefore, Ref(2), "options") = Ref(5)
    /\ ParamsAfter # Undef
    /\ Reify(HeapAfter, Read(HeapAfter, ParamsAfter, "headers")) =
          Obj([Accept |-> Str("text/plain"), Authorization |-> Str("Bearer tok")]
              @@ "Content-Type" :> Str("application/json;"))
    /\ Reify(HeapAfter, Ref(6)) = Obj([Accept |-> Str("text/plain")])

\* the run on the heap hands fetch what the run on values does
C20_HeapAgreesWithValues ==
    /\ applied.fn = "callApi" =>
          Reify(HeapAfter, ParamsAfter) =
             callApi(applied.args[2], Reify(HeapBefore, applied.args[3]), applied.args[4],
                     Reify(HeapBefore, applied.args[5])).params
    /\ applied.fn = "apiMiddleware" /\ ParamsAfter # Undef =>
          LET e == apiMiddleware(applied.args[2], Reify(HeapBefore, Ref(1)), NextReturn)
          IN  /\ Len(e.api) = 1
              /\ Reify(HeapAfter, ParamsAfter) =
                    callApi(e.api[1].url, e.api[1].body, e.api[1].method,
                            e.api[1].options).params

---------------------------------------------------------------------------
(* C21: a token source that yields nothing                                 *)

\* "Bearer " followed by the string form of a falsy token
BearerOfNothing(t) ==
    CASE t = Undef -> Str("Bearer undefined")
      [] t = Null -> Str("Bearer null")
      [] t = Str("") -> Str("Bearer ")

\* C21: with authenticated omitted or truthy and getAuthToken configured,
\* a getAuthToken that returns undefined, null or the empty string still
\* gets an Authorization header attached, "Bearer " followed by the string
\* form of what it returned, in the options passed to the transport and in
\* the parameters of fetch, in place of any Authorization header the
\* caller supplied.
C21_FalsyTokenStillAttached ==
    \A c \in DOMAIN calls :
        /\ calls[c].api # <<>>
        /\ HasTokenSource
        /\ TokenSource.ret \in {Undef, Null, Str("")}
        /\ Get(ApiCallOf(c), "authenticated") = Undef
              \/ Truthy(Get(ApiCallOf(c), "authenticated"))
        => /\ HeaderOf(PassedOptions(c), "Authorization") = BearerOfNothing(TokenSource.ret)
           /\ HeaderOf(FetchParams(c), "Authorization") = BearerOfNothing(TokenSource.ret)
           /\ HeaderOf(PassedOptions(c), "Authorization") #
                 HeaderOf(GivenOptions(c), "Authorization")

\* getAuthToken returned null, the caller had set an Authorization header
\* of their own, and the call reached the transport
C21_Witness ==
    \E c \in DOMAIN calls :
        /\ calls[c].api # <<>>
        /\ HasTokenSource /\ TokenSource.ret = Null
        /\ Get(ApiCallOf(c), "authenticated") = Bool(TRUE)
        /\ HeaderOf(GivenOptions(c), "Authorization") = Str("Basic abc")
        /\ HeaderOf(FetchParams(c), "Authorization") = Str("Bearer null")

---------------------------------------------------------------------------
(* C22: next throws on the Success message                                 *)

\* C22: when next throws on the Success message of a call, that call's
\* rejection handler does not run: next was called for Loading and Success
\* and for nothing else, no Error message exists, and the promise
\* apiMiddleware returned is rejected with what next threw.
C22_ThrowOnSuccessNotCaught ==
    \A c \in DOMAIN calls :
        \A i \in SentBy(c, "SUCCESS") :
            dispatched[i].out.type = "throw" =>
                /\ SentBy(c, "ERROR") = {}
                /\ KindsBy(c) = <<"LOADING", "SUCCESS">>
                /\ calls[c].pc = "done"
                /\ calls[c].result.type = "promise"
                /\ calls[c].result.state = "rejected"
                /\ calls[c].result.value = dispatched[i].out.value

\* the transport resolved, next returned for Loading and threw for Success
C22_Witness ==
    \E c \in DOMAIN calls :
        /\ calls[c].transport.state = "resolved"
        /\ \E i \in SentBy(c, "LOADING") : dispatched[i].out = NextReturn
        /\ \E i \in SentBy(c, "SUCCESS") :
              dispatched[i].out = Throw(Err("Error", "reducer failed", NoProps))
        /\ calls[c].result.state = "rejected"

====
